---- MODULE Spec2Model ----
(***************************************************************************)
(* A model of audioprocessor.py: sounds are dictionaries                   *)
(* {'rate', 'left', 'right'} whose channels are Python lists.  The lists   *)
(* live on a heap (a sequence of lists, a list's address being its index), *)
(* so that copying and aliasing are visible; samples are exact rationals   *)
(* <<numerator, denominator>> in lowest terms.  The samples, proportions,  *)
(* delays and scales drawn below are binary fractions of few bits, on      *)
(* which the float arithmetic of mix, echo, remove_vocals, write_wav and   *)
(* load_audio is exact as well; the i/(n-1) of pan is rounded by a float   *)
(* when n-1 is no power of two, and exact here.                            *)
(***************************************************************************)
EXTENDS Integers, Sequences

VARIABLES heap, bufs, last, budget, disk

vars == <<heap, bufs, last, budget, disk>>

(* ------------------------------ bounds -------------------------------- *)

\* longest channel of an input sound
MaxLen == 3
\* number of calls in a chain of transforms
MaxCalls == 2
\* largest num_echos passed to echo
MaxEchoes == 2
\* grid steps an encoded sample may lie beyond -1 or 1
Over == 2

(* ----------------------------- rationals ------------------------------ *)

Abs(n) == IF n < 0 THEN -n ELSE n

RECURSIVE Gcd(_, _)
Gcd(a, b) == IF b = 0 THEN a ELSE Gcd(b, a % b)

Lcm(a, b) == (a \div Gcd(a, b)) * b

Rat(n, d) ==
    LET s == IF d < 0 THEN -1 ELSE 1
        g == Gcd(Abs(n), Abs(d))
    IN  <<(s * n) \div g, (s * d) \div g>>

Zero == <<0, 1>>
One == <<1, 1>>
Half == <<1, 2>>

RNeg(x) == <<-x[1], x[2]>>

RAdd(x, y) ==
    LET l == Lcm(x[2], y[2])
    IN  Rat(x[1] * (l \div x[2]) + y[1] * (l \div y[2]), l)

RSub(x, y) == RAdd(x, RNeg(y))

RMul(x, y) ==
    LET g1 == Gcd(Abs(x[1]), y[2])
        g2 == Gcd(Abs(y[1]), x[2])
    IN  <<(x[1] \div g1) * (y[1] \div g2), (x[2] \div g2) * (y[2] \div g1)>>

RLe(x, y) ==
    LET l == Lcm(x[2], y[2])
    IN  x[1] * (l \div x[2]) <= y[1] * (l \div y[2])

RLt(x, y) == ~RLe(y, x)

RAbs(x) == <<Abs(x[1]), x[2]>>

RECURSIVE RPow(_, _)
RPow(x, k) == IF k = 0 THEN One ELSE RMul(x, RPow(x, k - 1))

\* Python's int(x): the integer part, toward zero
IntTrunc(x) == IF x[1] >= 0 THEN x[1] \div x[2] ELSE -((-x[1]) \div x[2])

\* Python's round(x): to the nearest integer, a tie to the even one
PyRound(x) ==
    LET f == x[1] \div x[2]
        r == x[1] % x[2]
    IN  IF 2 * r < x[2] THEN f
        ELSE IF 2 * r > x[2] THEN f + 1
        ELSE IF f % 2 = 0 THEN f ELSE f + 1

(* ------------------------------- lists -------------------------------- *)

RECURSIVE SliceReversed(_)
SliceReversed(list) ==
    IF list = <<>> THEN <<>>
    ELSE Append(SliceReversed(Tail(list)), Head(list))

\* [0]*k : k zeros, none when k is negative
Zeros(k) == IF k <= 0 THEN <<>> ELSE [i \in 1..k |-> Zero]

\* a new list on the heap; its address is the new length of the heap
Alloc(h, list) == [heap |-> Append(h, list), addr |-> Len(h) + 1]

ListAlias(h, a) == [heap |-> h, addr |-> a]

\* list[:] : a new list holding the same elements
ListCopy(h, a) == Alloc(h, h[a])

\* list.extend(more), in place
ListExtend(h, a, more) == [h EXCEPT ![a] = @ \o more]

multiply_list(input_list, number) ==
    [i \in 1..Len(input_list) |-> RMul(input_list[i], number)]

(* ------------------------------ outcomes ------------------------------ *)

NoError == "none"
RateMismatch == "AssertionError: Sound rates must be the same"
InvalidParameter == "AssertionError: Proportion must be a real number between 0 and 1"
ZeroDivision == "ZeroDivisionError"
IndexOutOfRange == "IndexError"
UnsupportedFile == "AssertionError: Only .WAV files are supported"
UnsupportedDepth == "AssertionError: Only 16-bit .WAV files are supported"

\* what a call returns: an error, or the heap it leaves and the sound it built
Raise(e, h) == [err |-> e, heap |-> h, rate |-> 0, left |-> 0, right |-> 0]
Return(h, r, l, rt) == [err |-> NoError, heap |-> h, rate |-> r, left |-> l, right |-> rt]

(* ----------------------------- transforms ----------------------------- *)

DropLast(list) == SubSeq(list, 1, Len(list) - 1)

backwards_short_right(h, sound) ==
    LET l == Alloc(h, SliceReversed(h[sound.left]))
        r == Alloc(l.heap, DropLast(l.heap[sound.right]))
    IN  Return(r.heap, sound.rate, l.addr, r.addr)

backwards_left_only(h, sound) ==
    LET l == Alloc(h, SliceReversed(h[sound.left]))
        r == Alloc(l.heap, l.heap[sound.right])
    IN  Return(r.heap, sound.rate, l.addr, r.addr)

backwards(h, sound) ==
    LET l == Alloc(h, SliceReversed(h[sound.left]))
        r == Alloc(l.heap, SliceReversed(l.heap[sound.right]))
    IN  Return(r.heap, sound.rate, l.addr, r.addr)

mix_check_p_first(rate1, rate2, p) ==
    IF ~(RLe(Zero, p) /\ RLe(p, One)) THEN InvalidParameter
    ELSE IF rate1 # rate2 THEN RateMismatch
    ELSE NoError

\* the two assertions of mix, in the order the source makes them
mix_check(rate1, rate2, p) ==
    IF rate1 # rate2 THEN RateMismatch
    ELSE IF ~(RLe(Zero, p) /\ RLe(p, One)) THEN InvalidParameter
    ELSE NoError

mix_sample_swapped(p, x, y) == RAdd(RMul(RSub(One, p), x), RMul(p, y))

\* p*sound1[i] + (1-p)*sound2[i]
mix_sample(p, x, y) == RAdd(RMul(p, x), RMul(RSub(One, p), y))

mix(h, sound1, sound2, p) ==
    LET e == mix_check(sound1.rate, sound2.rate, p)
        samples1 == Len(h[sound1.left])
        samples2 == Len(h[sound2.left])
        samples == IF samples1 <= samples2 THEN samples1 ELSE samples2
    IN  IF e # NoError THEN Raise(e, h)
        ELSE IF samples > Len(h[sound1.right]) \/ samples > Len(h[sound2.right])
        THEN Raise(IndexOutOfRange, h)
        ELSE LET l == Alloc(h, [i \in 1..samples |->
                             mix_sample(p, h[sound1.left][i], h[sound2.left][i])])
                 r == Alloc(l.heap, [i \in 1..samples |->
                             mix_sample(p, h[sound1.right][i], h[sound2.right][i])])
             IN  Return(r.heap, sound1.rate, l.addr, r.addr)

sample_delay(delay, rate) == PyRound(RMul(delay, <<rate, 1>>))

echo_offset(sd, num) == sd * (1 + num)

echo_gain_from_zero(scale, num) == RPow(scale, num)

\* scale**(1 + num)
echo_gain(scale, num) == RPow(scale, 1 + num)

\* the inner loop of echo, from index i (0-based) to n - 1, writing in place
RECURSIVE echo_inner(_, _, _, _, _, _, _, _)
echo_inner(h, aL, aR, left_echo, right_echo, off, i, n) ==
    IF i >= n THEN [err |-> NoError, heap |-> h]
    ELSE IF i >= off
    THEN IF i - off >= Len(left_echo) THEN [err |-> IndexOutOfRange, heap |-> h]
         ELSE LET h1 == [h EXCEPT ![aL][i + 1] = RAdd(@, left_echo[i - off + 1])]
              IN  IF i >= Len(h1[aR]) \/ i - off >= Len(right_echo)
                  THEN [err |-> IndexOutOfRange, heap |-> h1]
                  ELSE echo_inner([h1 EXCEPT ![aR][i + 1] = RAdd(@, right_echo[i - off + 1])],
                                  aL, aR, left_echo, right_echo, off, i + 1, n)
    ELSE echo_inner(h, aL, aR, left_echo, right_echo, off, i + 1, n)

\* the while loop of echo, from echo number num on
RECURSIVE echo_loop(_, _, _, _, _, _, _, _)
echo_loop(h, sound, aL, aR, sd, num, num_echos, scale) ==
    IF ~(num < num_echos) THEN [err |-> NoError, heap |-> h]
    ELSE LET h1 == ListExtend(h, aL, Zeros(sd))
             h2 == ListExtend(h1, aR, Zeros(sd))
             left_echo == multiply_list(h2[sound.left], echo_gain(scale, num))
             right_echo == multiply_list(h2[sound.right], echo_gain(scale, num))
             r == echo_inner(h2, aL, aR, left_echo, right_echo,
                             echo_offset(sd, num), 0, Len(h2[aL]))
         IN  IF r.err # NoError THEN r
             ELSE echo_loop(r.heap, sound, aL, aR, sd, num + 1, num_echos, scale)

echo(h, sound, num_echos, delay, scale) ==
    LET sd == sample_delay(delay, sound.rate)
        l == ListCopy(h, sound.left)
        r == ListCopy(l.heap, sound.right)
        e == echo_loop(r.heap, sound, l.addr, r.addr, sd, 0, num_echos, scale)
    IN  IF e.err # NoError THEN Raise(e.err, e.heap)
        ELSE Return(e.heap, sound.rate, l.addr, r.addr)

pan_denominator_n(n) == n

\* the n-1 that pan divides i by
pan_denominator(n) == n - 1

pan_factors_swapped(f, left_to_right) ==
    IF left_to_right THEN <<f, RSub(One, f)>> ELSE <<RSub(One, f), f>>

\* the factors of left[i] and right[i] for the fraction f = i/(n-1)
pan_factors(f, left_to_right) ==
    IF left_to_right THEN <<RSub(One, f), f>> ELSE <<f, RSub(One, f)>>

\* the loop of pan, from index i (0-based) to n - 1, writing in place
RECURSIVE pan_loop(_, _, _, _, _, _)
pan_loop(h, aL, aR, left_to_right, i, n) ==
    IF i >= n THEN [err |-> NoError, heap |-> h]
    ELSE IF pan_denominator(n) = 0 THEN [err |-> ZeroDivision, heap |-> h]
    ELSE LET k == pan_factors(Rat(i, pan_denominator(n)), left_to_right)
             h1 == [h EXCEPT ![aL][i + 1] = RMul(@, k[1])]
         IN  IF i >= Len(h1[aR]) THEN [err |-> IndexOutOfRange, heap |-> h1]
             ELSE pan_loop([h1 EXCEPT ![aR][i + 1] = RMul(@, k[2])],
                           aL, aR, left_to_right, i + 1, n)

pan(h, sound, left_to_right) ==
    LET n == Len(h[sound.left])
        l == ListCopy(h, sound.left)
        r == ListCopy(l.heap, sound.right)
        e == pan_loop(r.heap, l.addr, r.addr, left_to_right, 0, n)
    IN  IF e.err # NoError THEN Raise(e.err, e.heap)
        ELSE Return(e.heap, sound.rate, l.addr, r.addr)

remove_vocals(h, sound) ==
    LET n == Len(h[sound.left])
    IN  IF n > Len(h[sound.right]) THEN Raise(IndexOutOfRange, h)
        ELSE LET l == Alloc(h, [i \in 1..n |->
                             RSub(h[sound.left][i], h[sound.right][i])])
                 r == ListCopy(l.heap, l.addr)
             IN  Return(r.heap, sound.rate, l.addr, r.addr)

(* -------------------------------- codec ------------------------------- *)

\* 2**15, the scale of a decoded sample; an encoded one is scaled by 2**15 - 1
Scale15 == 32768
EncodeScale == Scale15 - 1

\* struct.pack('<h', v): two bytes, the low one first, of a signed 16-bit v
Pack16(v) == LET u == v % 65536 IN <<u % 256, u \div 256>>

\* struct.unpack('<h', b)[0]
Unpack16(b) ==
    LET u == b[1] + 256 * b[2]
    IN  IF u >= Scale15 THEN u - 65536 ELSE u

\* max(-1, min(1, x))
Clamp(x) ==
    LET m == IF RLt(x, One) THEN x ELSE One
    IN  IF RLt(RNeg(One), m) THEN m ELSE RNeg(One)

quantize_nearest(x) == PyRound(RMul(Clamp(x), <<EncodeScale, 1>>))

\* int(max(-1, min(1, l)) * (2**15-1))
quantize(x) == IntTrunc(RMul(Clamp(x), <<EncodeScale, 1>>))

\* the list out of write_wav from frame i (1-based) on: l, r, l, r, ...
RECURSIVE interleave(_, _, _, _)
interleave(left, right, i, n) ==
    IF i > n THEN <<>>
    ELSE <<quantize(left[i]), quantize(right[i])>> \o interleave(left, right, i + 1, n)

RECURSIVE join_packed(_)
join_packed(out) ==
    IF out = <<>> THEN <<>> ELSE Pack16(Head(out)) \o join_packed(Tail(out))

\* a file: its name's last four characters, the header and the frame bytes;
\* src is the sound it was written from (0: a file that was there before)
File(ext, chan, bd, rate, data, src) ==
    [ext |-> ext, nchannels |-> chan, sampwidth |-> bd, framerate |-> rate,
     data |-> data, src |-> src]

NoFile == File("", 0, 0, 0, <<>>, 0)

write_wav(h, sound, ext, src) ==
    LET left == h[sound.left]
        right == h[sound.right]
        n == IF Len(left) <= Len(right) THEN Len(left) ELSE Len(right)
        out == interleave(left, right, 1, n)
    IN  File(ext, 2, 2, sound.rate, join_packed(out), src)

normalize_wide(v) == Rat(v, 2 * Scale15)

\* i/(2**15)
normalize(v) == Rat(v, Scale15)

load_audio(h, f) ==
    IF f.ext # ".wav" THEN Raise(UnsupportedFile, h)
    ELSE IF f.sampwidth # 2 THEN Raise(UnsupportedDepth, h)
    ELSE LET width == f.nchannels * f.sampwidth
             count == Len(f.data) \div width
             frame(i) == SubSeq(f.data, (i - 1) * width + 1, i * width)
             left == [i \in 1..count |-> Unpack16(SubSeq(frame(i), 1, 2))]
             right == [i \in 1..count |->
                         IF f.nchannels = 2 THEN Unpack16(SubSeq(frame(i), 3, 4))
                         ELSE Unpack16(frame(i))]
             l == Alloc(h, [i \in 1..count |-> normalize(left[i])])
             r == Alloc(l.heap, [i \in 1..count |-> normalize(right[i])])
         IN  Return(r.heap, f.framerate, l.addr, r.addr)

(* ------------------------------ the caller ---------------------------- *)

Rates == {1, 2}
Samples == {<<-1, 1>>, Half}
Proportions == {<<-1, 2>>, Zero, Half, One, <<3, 2>>}
Delays == {<<-1, 1>>, Half, One}
Scales == {Half, <<-2, 1>>}

\* a call: the operation, its arguments (sounds by their index in bufs) and,
\* once made, its outcome
CallOf(op, s1, s2, p, ne, d, sc, ltr) ==
    [op |-> op, err |-> NoError, src1 |-> s1, src2 |-> s2, p |-> p,
     num_echos |-> ne, delay |-> d, scale |-> sc, left_to_right |-> ltr]

Given == CallOf("given", 0, 0, Zero, 0, Zero, Zero, TRUE)

\* the sounds of a run, each with the call that made it
Sound(r, l, rt, c) == [rate |-> r, left |-> l, right |-> rt, by |-> c]

\* the outcome of call c: a sound is returned and kept, or the call fails and
\* what it allocated is garbage
Finish(c, r) ==
    /\ budget' = budget - 1
    /\ last' = [c EXCEPT !.err = r.err]
    /\ IF r.err = NoError
       THEN /\ heap' = r.heap
            /\ bufs' = Append(bufs, Sound(r.rate, r.left, r.right, c))
       ELSE /\ heap' = SubSeq(r.heap, 1, Len(heap))
            /\ bufs' = bufs
    /\ UNCHANGED disk

Backwards ==
    /\ budget > 0
    /\ \E i \in 1..Len(bufs) :
          Finish(CallOf("backwards", i, 0, Zero, 0, Zero, Zero, TRUE),
                 backwards(heap, bufs[i]))

Mix ==
    /\ budget > 0
    /\ \E i \in 1..Len(bufs), j \in 1..Len(bufs), p \in Proportions :
          Finish(CallOf("mix", i, j, p, 0, Zero, Zero, TRUE),
                 mix(heap, bufs[i], bufs[j], p))

Echo ==
    /\ budget > 0
    /\ \E i \in 1..Len(bufs), ne \in 0..MaxEchoes, d \in Delays, sc \in Scales :
          Finish(CallOf("echo", i, 0, Zero, ne, d, sc, TRUE),
                 echo(heap, bufs[i], ne, d, sc))

Pan ==
    /\ budget > 0
    /\ \E i \in 1..Len(bufs), ltr \in BOOLEAN :
          Finish(CallOf("pan", i, 0, Zero, 0, Zero, Zero, ltr),
                 pan(heap, bufs[i], ltr))

RemoveVocals ==
    /\ budget > 0
    /\ \E i \in 1..Len(bufs) :
          Finish(CallOf("remove_vocals", i, 0, Zero, 0, Zero, Zero, TRUE),
                 remove_vocals(heap, bufs[i]))

\* one sound given to the caller, both channels of one length
Init ==
    /\ \E r \in Rates, n \in 0..MaxLen :
          \E l \in [1..n -> Samples], rt \in [1..n -> Samples] :
             /\ heap = <<l, rt>>
             /\ bufs = <<Sound(r, 1, 2, Given)>>
    /\ last = Given
    /\ budget = MaxCalls
    /\ disk = NoFile

Next == Backwards \/ Mix \/ Echo \/ Pan \/ RemoveVocals

Spec == Init /\ [][Next]_vars

\* a steady channel: n samples of one value
SteadyList(n) == [i \in 1..n |-> Half]

\* two sounds given to the caller, the second one steady, and one call to make
InitOne ==
    /\ \E r1 \in Rates, r2 \in Rates, n1 \in 0..MaxLen, n2 \in 0..MaxLen :
          \E l \in [1..n1 -> Samples], rt \in [1..n1 -> Samples] :
             /\ heap = <<l, rt, SteadyList(n2), SteadyList(n2)>>
             /\ bufs = <<Sound(r1, 1, 2, Given), Sound(r2, 3, 4, Given)>>
    /\ last = Given
    /\ budget = 1
    /\ disk = NoFile

SpecOne == InitOne /\ [][Next]_vars

(* ------------------------- saving and loading ------------------------- *)

\* half a 16-bit step: the grid the saved samples lie on
Grid == 2 * Scale15
FarSamples == {<<-3, 1>>, <<5, 2>>}
EncodedSamples == {Rat(n, Grid) : n \in (-Grid - Over)..(Grid + Over)} \cup FarSamples
Extensions == {".wav", ".mp3"}
PcmValues == {-Scale15, -1, EncodeScale}
SavedRate == CHOOSE r \in Rates : \A q \in Rates : r >= q

WriteWav ==
    /\ budget > 0
    /\ \E i \in 1..Len(bufs) :
          /\ disk' = write_wav(heap, bufs[i], ".wav", i)
          /\ last' = CallOf("write_wav", i, 0, Zero, 0, Zero, Zero, TRUE)
    /\ budget' = budget - 1
    /\ UNCHANGED <<heap, bufs>>

LoadAudio ==
    /\ budget > 0
    /\ disk # NoFile
    /\ Finish(CallOf("load_audio", disk.src, 0, Zero, 0, Zero, Zero, TRUE),
              load_audio(heap, disk))

\* a sound of one frame to save under a .wav name (its left sample anywhere on
\* the grid, its right sample the opposite one), or a file that is there
\* already; a save and a load, or two of either, to make
InitCodec ==
    /\ \/ /\ \E x \in EncodedSamples :
                /\ heap = <<<<x>>, <<RNeg(x)>>>>
                /\ bufs = <<Sound(SavedRate, 1, 2, Given)>>
          /\ disk = NoFile
       \/ /\ heap = <<>>
          /\ bufs = <<>>
          /\ \E ext \in Extensions, chan \in {1, 2}, bd \in {1, 2}, r \in Rates,
                n \in 0..1 :
                \E frames \in [1..(n * chan) -> PcmValues] :
                   disk = File(ext, chan, bd, r,
                               IF bd = 2 THEN join_packed(frames)
                               ELSE [i \in 1..(n * chan) |-> frames[i] % 256], 0)
    /\ last = Given
    /\ budget = 2

NextCodec == WriteWav \/ LoadAudio

SpecCodec == InitCodec /\ [][NextCodec]_vars

(* ------------------------------- claims ------------------------------- *)

Left(i) == heap[bufs[i].left]
Right(i) == heap[bufs[i].right]
Made(i, op) == bufs[i].by.op = op
Source1(i) == bufs[i].by.src1
Source2(i) == bufs[i].by.src2
Min(a, b) == IF a <= b THEN a ELSE b
InUnit(x) == RLe(RNeg(One), x) /\ RLe(x, One)

\* C1: every sound of a run has channels of one length, and the rate of the
\* sound or sounds it was made from.
C1_EqualLengthsSameRate ==
    \A i \in 1..Len(bufs) :
       /\ Len(Left(i)) = Len(Right(i))
       /\ Source1(i) # 0 => bufs[i].rate = bufs[Source1(i)].rate
       /\ Source2(i) # 0 => bufs[i].rate = bufs[Source2(i)].rate

\* a sound mixed from a sound and a longer sound made from it
C1_Witness ==
    \E i \in 1..Len(bufs) :
       /\ Made(i, "mix")
       /\ Made(Source2(i), "echo")
       /\ Source1(i) = Source1(Source2(i))
       /\ Len(Left(Source1(i))) < Len(Left(Source2(i)))
       /\ Len(Left(i)) > 0

\* C2: no call changes a list that was there before it or a sound that was
\* there before it, and the channels of the sound it returns are two new
\* lists: so what echo and pan write in place, they write to lists no other
\* sound holds.
C2_NoMutationNoAliasing ==
    [][/\ Len(heap') >= Len(heap)
       /\ \A a \in 1..Len(heap) : heap'[a] = heap[a]
       /\ Len(bufs') >= Len(bufs)
       /\ \A i \in 1..Len(bufs) : bufs'[i] = bufs[i]
       /\ Len(bufs') > Len(bufs) =>
             LET b == bufs'[Len(bufs')]
             IN  /\ b.left > Len(heap)
                 /\ b.right > Len(heap)
                 /\ b.left # b.right]_vars

\* echo or pan has written in place to its copy of a sound that an earlier
\* call returned
C2_Witness ==
    \E i \in 1..Len(bufs) :
       /\ Made(i, "echo") \/ Made(i, "pan")
       /\ ~Made(Source1(i), "given")
       /\ Len(Left(Source1(i))) > 0
       /\ Left(i) # Left(Source1(i))
       /\ Right(i) # Right(Source1(i))

MixStep == last'.op = "mix" /\ budget' = budget - 1

\* C3 as claimed: mix fails with the rate error whenever the rates differ and
\* with the parameter error whenever p is outside [0, 1], and succeeds
\* otherwise; a failed call leaves everything as it was.
C3_Original ==
    [][MixStep =>
         LET a == bufs[last'.src1]
             b == bufs[last'.src2]
             inside == RLe(Zero, last'.p) /\ RLe(last'.p, One)
         IN  /\ a.rate # b.rate => last'.err = RateMismatch
             /\ ~inside => last'.err = InvalidParameter
             /\ (a.rate = b.rate /\ inside) => last'.err = NoError
             /\ last'.err # NoError => bufs' = bufs /\ heap' = heap]_vars

\* C3, amended: mix fails with the rate error whenever the rates differ, with
\* the parameter error whenever the rates are equal and p is outside [0, 1],
\* and succeeds, returning a sound, whenever the rates are equal and p is in
\* [0, 1]; a failed call returns no sound and leaves every sound and list as
\* it was.
C3_RateCheckedFirst ==
    [][MixStep =>
         LET a == bufs[last'.src1]
             b == bufs[last'.src2]
             inside == RLe(Zero, last'.p) /\ RLe(last'.p, One)
         IN  /\ a.rate # b.rate => last'.err = RateMismatch
             /\ (a.rate = b.rate /\ ~inside) => last'.err = InvalidParameter
             /\ (a.rate = b.rate /\ inside) =>
                   last'.err = NoError /\ Len(bufs') = Len(bufs) + 1
             /\ last'.err # NoError => bufs' = bufs /\ heap' = heap]_vars

\* mix was called with different rates and p outside [0, 1]
C3_Witness ==
    /\ last.op = "mix"
    /\ bufs[last.src1].rate # bufs[last.src2].rate
    /\ ~RLe(last.p, One)
    /\ last.err = RateMismatch

\* C4: a mixed sound has the rate of the first sound, the length of the
\* shorter one, and p*a + (1-p)*b in every sample of both channels; for p = 1
\* it is a cut to that length, for p = 0 it is b cut to that length.
C4_MixSamples ==
    \A i \in 1..Len(bufs) :
       Made(i, "mix") =>
          LET a == Source1(i)
              b == Source2(i)
              p == bufs[i].by.p
              n == Min(Len(Left(a)), Len(Left(b)))
          IN  /\ bufs[i].rate = bufs[a].rate
              /\ Len(Left(i)) = n /\ Len(Right(i)) = n
              /\ \A k \in 1..n :
                    /\ Left(i)[k] = RAdd(RMul(p, Left(a)[k]),
                                         RMul(RSub(One, p), Left(b)[k]))
                    /\ Right(i)[k] = RAdd(RMul(p, Right(a)[k]),
                                          RMul(RSub(One, p), Right(b)[k]))
              /\ p = One => /\ Left(i) = SubSeq(Left(a), 1, n)
                            /\ Right(i) = SubSeq(Right(a), 1, n)
              /\ p = Zero => /\ Left(i) = SubSeq(Left(b), 1, n)
                             /\ Right(i) = SubSeq(Right(b), 1, n)

\* two different sounds of different lengths mixed half and half
C4_Witness ==
    \E i \in 1..Len(bufs) :
       /\ Made(i, "mix")
       /\ bufs[i].by.p = Half
       /\ Len(Left(Source1(i))) > Len(Left(Source2(i)))
       /\ Len(Left(i)) > 1
       /\ Left(i)[1] # Left(Source1(i))[1]
       /\ Left(i)[1] # Left(Source2(i))[1]

\* the echoes 1..k of orig that fall on index i (0-based), each scaled by one
\* more power of scale
RECURSIVE EchoesAt(_, _, _, _, _)
EchoesAt(orig, i, sd, scale, k) ==
    IF k = 0 THEN Zero
    ELSE IF 0 <= i - sd * k /\ i - sd * k < Len(orig)
    THEN RAdd(EchoesAt(orig, i, sd, scale, k - 1),
              RMul(RPow(scale, k), orig[i - sd * k + 1]))
    ELSE EchoesAt(orig, i, sd, scale, k - 1)

EchoAt(orig, i, sd, scale, ne) ==
    RAdd(IF i < Len(orig) THEN orig[i + 1] ELSE Zero, EchoesAt(orig, i, sd, scale, ne))

\* the channel echo is to return for the channel orig
Echoed(orig, sd, scale, ne) ==
    [k \in 1..(Len(orig) + ne * sd) |-> EchoAt(orig, k - 1, sd, scale, ne)]

EchoIsRight(i, a, c, sd) ==
    /\ Left(i) = Echoed(Left(a), sd, c.scale, c.num_echos)
    /\ Right(i) = Echoed(Right(a), sd, c.scale, c.num_echos)
    /\ c.num_echos = 0 =>
          /\ Left(i) = Left(a) /\ Right(i) = Right(a)
          /\ bufs[i].rate = bufs[a].rate

RoundedDelay(c, rate) == PyRound(RMul(c.delay, <<rate, 1>>))

\* C5: for a sample delay of 0 or more, echo does not fail, and returns
\* n + num_echos*sample_delay samples in each channel, each the original
\* sample there (0 past its end) plus every echo that falls on it; with no
\* echo the sound returned equals the given one.
C5_EchoSuperposes ==
    /\ (last.op = "echo" /\ RoundedDelay(last, bufs[last.src1].rate) >= 0)
          => last.err = NoError
    /\ \A i \in 1..Len(bufs) :
          Made(i, "echo") =>
             LET sd == RoundedDelay(bufs[i].by, bufs[Source1(i)].rate)
             IN  sd >= 0 => EchoIsRight(i, Source1(i), bufs[i].by, sd)

\* two echoes, one sample apart, of a sound of three samples: the second
\* sample out holds the original and the first echo, the third both echoes
C5_Witness ==
    \E i \in 1..Len(bufs) :
       /\ Made(i, "echo")
       /\ bufs[i].by.num_echos = 2
       /\ RoundedDelay(bufs[i].by, bufs[Source1(i)].rate) = 1
       /\ Len(Left(Source1(i))) = 3
       /\ Len(Left(i)) = 5
       /\ Left(i)[3] # Left(Source1(i))[3]

\* C8: for a sound of more than one sample, pan returns a sound of the same
\* length and rate; panning left to right, left[i] is the original times
\* 1 - i/(n-1) and right[i] the original times i/(n-1), so that the first
\* left sample and the last right one are kept and the last left sample and
\* the first right one are 0; panning right to left swaps the two factors.
C8_PanCrossFade ==
    \A i \in 1..Len(bufs) :
       (Made(i, "pan") /\ Len(Left(Source1(i))) > 1) =>
          LET a == Source1(i)
              n == Len(Left(a))
              f(k) == Rat(k, n - 1)
              g(k) == RSub(One, f(k))
          IN  /\ bufs[i].rate = bufs[a].rate
              /\ Len(Left(i)) = n /\ Len(Right(i)) = n
              /\ IF bufs[i].by.left_to_right
                 THEN /\ Left(i)[1] = Left(a)[1] /\ Right(i)[1] = Zero
                      /\ Left(i)[n] = Zero /\ Right(i)[n] = Right(a)[n]
                      /\ \A k \in 0..(n - 1) :
                            /\ Left(i)[k + 1] = RMul(Left(a)[k + 1], g(k))
                            /\ Right(i)[k + 1] = RMul(Right(a)[k + 1], f(k))
                 ELSE \A k \in 0..(n - 1) :
                         /\ Left(i)[k + 1] = RMul(Left(a)[k + 1], f(k))
                         /\ Right(i)[k + 1] = RMul(Right(a)[k + 1], g(k))

\* a sound of three samples panned left to right, its middle sample halved
C8_Witness ==
    \E i \in 1..Len(bufs) :
       /\ Made(i, "pan")
       /\ bufs[i].by.left_to_right
       /\ Len(Left(i)) = 3
       /\ Left(Source1(i))[2] = Half
       /\ Left(i)[2] = <<1, 4>>
       /\ Right(i)[3] # Zero

\* C9: backwards never fails and returns the rate and, in each channel, the
\* samples in reverse order; backwards of backwards of a sound has the rate,
\* the left and the right of that sound, whatever its length.
C9_BackwardsInvolution ==
    /\ last.op = "backwards" => last.err = NoError
    /\ \A i \in 1..Len(bufs) :
          Made(i, "backwards") =>
             LET a == Source1(i)
                 n == Len(Left(a))
             IN  /\ bufs[i].rate = bufs[a].rate
                 /\ Len(Left(i)) = n /\ Len(Right(i)) = Len(Right(a))
                 /\ \A k \in 1..n :
                       /\ Left(i)[k] = Left(a)[n + 1 - k]
                       /\ Right(i)[k] = Right(a)[n + 1 - k]
                 /\ Made(a, "backwards") =>
                       /\ bufs[i].rate = bufs[Source1(a)].rate
                       /\ Left(i) = Left(Source1(a))
                       /\ Right(i) = Right(Source1(a))

\* a sound that is not its own reverse, reversed twice
C9_Witness ==
    \E i \in 1..Len(bufs) :
       /\ Made(i, "backwards")
       /\ Made(Source1(i), "backwards")
       /\ Left(i) # Left(Source1(i))
       /\ Right(i) # Right(Source1(i))

\* C10 as claimed: pan of a sound of no sample or of one sample fails with a
\* division by zero.
C10_Original ==
    (last.op = "pan" /\ Len(Left(last.src1)) <= 1) => last.err = ZeroDivision

PanStep == last'.op = "pan" /\ budget' = budget - 1

\* C10, amended: pan of a sound of one sample, in either direction, fails
\* with a division by zero, returns no sound and leaves every sound and list
\* as it was; pan of a sound of no sample does not fail, and returns a sound
\* of no sample with the same rate.
C10_PanOfOneSampleFails ==
    [][PanStep =>
         LET a == last'.src1
             n == Len(Left(a))
         IN  /\ n = 1 => /\ last'.err = ZeroDivision
                         /\ bufs' = bufs /\ heap' = heap
             /\ n = 0 => /\ last'.err = NoError
                         /\ Len(bufs') = Len(bufs) + 1
                         /\ LET b == bufs'[Len(bufs')]
                            IN  /\ heap'[b.left] = <<>> /\ heap'[b.right] = <<>>
                                /\ b.rate = bufs[a].rate]_vars

\* pan of a sound of one sample, right to left, has failed
C10_Witness ==
    /\ last.op = "pan"
    /\ ~last.left_to_right
    /\ Len(Left(last.src1)) = 1
    /\ last.err = ZeroDivision

(* the 16-bit values of the file on disk, frame by frame: <<left, right>> *)
Saved(k) ==
    <<Unpack16(SubSeq(disk.data, 4 * k - 3, 4 * k - 2)),
      Unpack16(SubSeq(disk.data, 4 * k - 1, 4 * k))>>

\* q is c * (2**15 - 1) cut to an integer toward zero, c = n/d being the
\* sample x clamped to [-1, 1]
IsTruncated(q, x) ==
    LET c == IF RLt(One, x) THEN One ELSE IF RLt(x, RNeg(One)) THEN RNeg(One) ELSE x
        v == c[1] * EncodeScale
        d == c[2]
    IN  IF v >= 0 THEN q * d <= v /\ v < (q + 1) * d
        ELSE (q - 1) * d < v /\ v <= q * d

\* q is an integer nearest to c * (2**15 - 1)
IsNearest(q, x) ==
    LET c == IF RLt(One, x) THEN One ELSE IF RLt(x, RNeg(One)) THEN RNeg(One) ELSE x
        v == c[1] * EncodeScale
        d == c[2]
    IN  2 * Abs(v - q * d) <= d

WasSaved == disk.src # 0 /\ last.op = "write_wav"

\* C7 as claimed: every saved value is the sample, clamped to [-1, 1] and
\* times 2**15 - 1, rounded to an integer, and lies in -32767..32767.
C7_Original ==
    WasSaved =>
       /\ Len(disk.data) = 4 * Len(Left(disk.src))
       /\ \A k \in 1..Len(Left(disk.src)) :
             /\ IsNearest(Saved(k)[1], Left(disk.src)[k])
             /\ IsNearest(Saved(k)[2], Right(disk.src)[k])
             /\ \A c \in 1..2 : -EncodeScale <= Saved(k)[c] /\ Saved(k)[c] <= EncodeScale

\* C7, amended: every saved value is the sample, clamped to [-1, 1] and times
\* 2**15 - 1, cut to an integer toward zero, and lies in -32767..32767; the
\* file has two channels of two bytes and the sound's rate.
C7_TruncatedInRange ==
    WasSaved =>
       /\ disk.nchannels = 2 /\ disk.sampwidth = 2
       /\ disk.framerate = bufs[disk.src].rate
       /\ Len(disk.data) = 4 * Len(Left(disk.src))
       /\ \A k \in 1..Len(Left(disk.src)) :
             /\ IsTruncated(Saved(k)[1], Left(disk.src)[k])
             /\ IsTruncated(Saved(k)[2], Right(disk.src)[k])
             /\ \A c \in 1..2 : -EncodeScale <= Saved(k)[c] /\ Saved(k)[c] <= EncodeScale

\* a sample above 1 and a sample below -1 were saved as 32767 and -32767
C7_Witness ==
    /\ WasSaved
    /\ Len(Left(disk.src)) = 1
    /\ Left(disk.src)[1] = <<5, 2>>
    /\ Saved(1) = <<EncodeScale, -EncodeScale>>

Lsb == <<1, Scale15>>

Reloaded(i) == Made(i, "load_audio") /\ Source1(i) # 0

AllInUnit(i) ==
    /\ \A k \in 1..Len(Left(i)) : InUnit(Left(i)[k])
    /\ \A k \in 1..Len(Right(i)) : InUnit(Right(i)[k])

\* C6 as claimed: a sound with every sample in [-1, 1], saved and loaded
\* again, comes back with every sample within 1/2**15 of the saved one.
C6_Original ==
    \A i \in 1..Len(bufs) :
       (Reloaded(i) /\ AllInUnit(Source1(i))) =>
          LET a == Source1(i)
          IN  /\ Len(Left(i)) = Len(Left(a)) /\ Len(Right(i)) = Len(Right(a))
              /\ \A k \in 1..Len(Left(a)) :
                    /\ RLe(RAbs(RSub(Left(i)[k], Left(a)[k])), Lsb)
                    /\ RLe(RAbs(RSub(Right(i)[k], Right(a)[k])), Lsb)

\* C6, amended: a sound with every sample in [-1, 1], saved and loaded again,
\* comes back with as many samples, each less than 2/2**15 from the saved one.
C6_WithinTwoLsb ==
    \A i \in 1..Len(bufs) :
       (Reloaded(i) /\ AllInUnit(Source1(i))) =>
          LET a == Source1(i)
          IN  /\ Len(Left(i)) = Len(Left(a)) /\ Len(Right(i)) = Len(Right(a))
              /\ \A k \in 1..Len(Left(a)) :
                    /\ RLt(RAbs(RSub(Left(i)[k], Left(a)[k])), RAdd(Lsb, Lsb))
                    /\ RLt(RAbs(RSub(Right(i)[k], Right(a)[k])), RAdd(Lsb, Lsb))

\* a sample of [-1, 1] that is no multiple of 1/2**15 came back changed
C6_Witness ==
    \E i \in 1..Len(bufs) :
       /\ Reloaded(i)
       /\ AllInUnit(Source1(i))
       /\ Left(Source1(i))[1][2] = Grid
       /\ Left(i)[1] # Left(Source1(i))[1]

====
